---- MODULE Spec2Model ----
(***************************************************************************)
(* Model of src/app.py: the label normalizer norm, the header detection    *)
(* and column filter process_excel, the allow-list store (DynamoDB item    *)
(* "columns") with its "Add Column Permanently" handler, and the           *)
(* "Upload & Send" handler, run by concurrent Streamlit sessions.          *)
(*                                                                         *)
(* A text value is a sequence of characters; a character is a one-symbol   *)
(* string ("nbsp" stands for U+00A0).                                      *)
(***************************************************************************)
EXTENDS Integers, Sequences, FiniteSets, TLC

\* ------------------------------------------------------------------ bounds
MaxLen == 3
MaxRows == 2
MaxCols == 2
MaxTail == 1
MaxFiles == 2
MaxClicks == 2

\* ------------------------------------------------------- program constants
ScanLimit == 300

\* --------------------------------------------------------------- characters
Upper == {"A", "B"}
LowerAZ == {"a", "b"}
Digits == {"1"}
Whitespace == {" ", "nbsp"}
Separators == {".", "_", "-"}
Punct == {"#"}
Alphabet == Upper \cup LowerAZ \cup Digits \cup Whitespace \cup Separators \cup Punct

\* Unicode code points, the order Python's sorted() compares text by.
Ord(c) ==
  CASE c = " " -> 32 [] c = "#" -> 35 [] c = "-" -> 45 [] c = "." -> 46
    [] c = "1" -> 49 [] c = "A" -> 65 [] c = "B" -> 66 [] c = "_" -> 95
    [] c = "a" -> 97 [] c = "b" -> 98 [] c = "nbsp" -> 160

Range(s) == {s[k] : k \in 1..Len(s)}

Min(a, b) == IF a < b THEN a ELSE b

RECURSIVE SeqsUpTo(_, _)
SeqsUpTo(S, n) ==
  IF n = 0 THEN {<<>>}
  ELSE LET shorter == SeqsUpTo(S, n - 1)
       IN  shorter \cup {Append(t, x) : t \in {u \in shorter : Len(u) = n - 1}, x \in S}

SeqsOfLen(S, n) == {t \in SeqsUpTo(S, n) : Len(t) = n}

\* ------------------------------------------------------------------- norm
\* unicodedata.normalize("NFKC", .) on one character of the alphabet.
NFKC(c) == IF c = "nbsp" THEN " " ELSE c

MapSeq(s, f) == [k \in 1..Len(s) |-> f[s[k]]]

NFKCMap == [c \in Alphabet |-> NFKC(c)]

LowerChar(c) == CASE c = "A" -> "a" [] c = "B" -> "b" [] OTHER -> c

LowerMap == [c \in Alphabet |-> LowerChar(c)]

RECURSIVE LStrip(_)
LStrip(s) ==
  IF s # <<>> /\ Head(s) \in Whitespace THEN LStrip(Tail(s)) ELSE s

RECURSIVE RStrip(_)
RStrip(s) ==
  IF s # <<>> /\ s[Len(s)] \in Whitespace THEN RStrip(SubSeq(s, 1, Len(s) - 1)) ELSE s

\* str.strip()
Strip(s) == LStrip(RStrip(s))

RECURSIVE DropRun(_, _)
DropRun(s, class) ==
  IF s # <<>> /\ Head(s) \in class THEN DropRun(Tail(s), class) ELSE s

\* re.sub(r"[class]+", repl, s): every maximal run of class characters
\* becomes repl.
RECURSIVE ReSub(_, _, _)
ReSub(s, class, repl) ==
  IF s = <<>> THEN <<>>
  ELSE IF Head(s) \in class
       THEN repl \o ReSub(DropRun(s, class), class, repl)
       ELSE <<Head(s)>> \o ReSub(Tail(s), class, repl)

\* re.match(r"^[A-Za-z0-9]", s)
StartsAlnum(s) == s # <<>> /\ Head(s) \in (Upper \cup LowerAZ \cup Digits)

ReplaceNbsp(s) == [k \in 1..Len(s) |-> IF s[k] = "nbsp" THEN " " ELSE s[k]]

norm(s) ==
  LET s1 == Strip(MapSeq(s, NFKCMap))
  IN  IF ~StartsAlnum(s1) THEN <<>>
      ELSE LET s2 == ReplaceNbsp(s1)
               s3 == MapSeq(s2, LowerMap)
               s4 == ReSub(s3, Whitespace \cup Separators, <<" ">>)
               s5 == ReSub(s4, Alphabet \ (LowerAZ \cup Digits \cup {" "}), <<>>)
           IN  ReSub(s5, Whitespace, <<" ">>)

\* ---------------------------------------------------------- process_excel
\* Membership of a key in the list wanted_norm (Python's "in" on a list).
InList(x, list) == \E k \in 1..Len(list) : list[k] = x

\* Line 89: the number of cells of the row whose norm is in wanted_norm.
Score(row, wanted) == Cardinality({j \in 1..Len(row) : InList(norm(row[j]), wanted)})

\* The comparison with >=, under which a later row with an equal score
\* displaces the best so far.
BetterOrEqual(score, best) == score >= best

\* Line 90: the strict comparison that lets a row displace the best so far.
Better(score, best) == score > best

\* Lines 88-91: one iteration of the scan loop on row index idx.
ScanIter(best, idx, row, wanted) ==
  LET score == Score(row, wanted)
  IN  IF Better(score, best.score) THEN [idx |-> idx, score |-> score] ELSE best

\* Line 87: range(min(300, len(df))).
ScanBound(grid) == Min(ScanLimit, Len(grid))

RECURSIVE ScanFrom(_, _, _, _)
ScanFrom(grid, wanted, idx, best) ==
  IF idx >= ScanBound(grid) THEN best
  ELSE ScanFrom(grid, wanted, idx + 1, ScanIter(best, idx, grid[idx + 1], wanted))

\* Lines 84-91: best_idx, best_score after the loop.
Detect(grid, wanted) == ScanFrom(grid, wanted, 0, [idx |-> -1, score |-> -1])

\* Line 101: keep, the labels (not the positions) whose norm is wanted.
Keep(header, wanted) ==
  SelectSeq(header, LAMBDA c : InList(norm(c), wanted))

RECURSIVE PositionsFrom(_, _, _)
PositionsFrom(header, c, j) ==
  IF j > Len(header) THEN <<>>
  ELSE (IF header[j] = c THEN <<j>> ELSE <<>>) \o PositionsFrom(header, c, j + 1)

\* The positions a label selects in a frame whose column labels are header:
\* every column that carries the label, in ascending position.
LabelPositions(header, c) == PositionsFrom(header, c, 1)

RECURSIVE Flatten(_)
Flatten(ss) == IF ss = <<>> THEN <<>> ELSE Head(ss) \o Flatten(Tail(ss))

\* Line 106: body[keep], a list of labels looked up in the frame's column
\* index; each label of keep selects every column carrying it.
Select(header, keep) ==
  Flatten([k \in 1..Len(keep) |-> LabelPositions(header, keep[k])])

Project(row, positions) == [k \in 1..Len(positions) |-> row[positions[k]]]

\* Line 97: the rows after the header row.
Body(grid, idx) == SubSeq(grid, idx + 2, Len(grid))

\* The check left out: an empty keep is not reported.
NeverEmpty(keep) == FALSE

\* Line 103: "if not keep".
NoneKept(keep) == keep = <<>>

ErrNoHeader == "Could not find header row matching allow-list"
ErrNoMatch == "No matching columns found"
NoTable == [labels |-> <<>>, rows |-> <<>>]

\* Lines 96-106 for the header row at index idx.
FilterColumns(grid, idx, wanted) ==
  LET header == grid[idx + 1]
      kept == Keep(header, wanted)
      positions == Select(header, kept)
      body == Body(grid, idx)
  IN  IF NoneKept(kept)
      THEN [error |-> ErrNoMatch, table |-> NoTable]
      ELSE [error |-> "",
            table |-> [labels |-> Project(header, positions),
                       rows |-> [r \in 1..Len(body) |-> Project(body[r], positions)]]]

\* Lines 84-106 as one call.
process_excel(grid, wanted) ==
  LET best == Detect(grid, wanted)
  IN  IF best.idx < 0
      THEN [error |-> ErrNoHeader, table |-> NoTable]
      ELSE FilterColumns(grid, best.idx, wanted)

\* ------------------------------------------------------- allow-list store
RECURSIVE TextLess(_, _)
TextLess(a, b) ==
  IF b = <<>> THEN FALSE
  ELSE IF a = <<>> THEN TRUE
  ELSE IF Ord(Head(a)) # Ord(Head(b)) THEN Ord(Head(a)) < Ord(Head(b))
  ELSE TextLess(Tail(a), Tail(b))

RECURSIVE SortedSet(_)
\* sorted(set(cols)), line 66.
SortedSet(S) ==
  IF S = {} THEN <<>>
  ELSE LET m == CHOOSE x \in S : \A y \in S \ {x} : TextLess(x, y)
       IN  <<m>> \o SortedSet(S \ {m})

\* Line 202: WANTED_NORM = [norm(c) for c in DB_COLS].
WantedNorm(names) == [k \in 1..Len(names) |-> norm(names[k])]

\* ------------------------------------------------------------------ state
VARIABLES
  raw, key, rekey, npc,                                   \* a norm round trip
  grid, wanted_norm, i, best_idx, best_score,             \* process_excel
  header_vals, keep, result, error, xpc,
  store,                                                  \* the item "columns"
  pc, cols, added, column_added_msg,                      \* per session
  DB_COLS, WANTED_NORM, uploaded_files, fidx, delivered, message,
  clicks

normVars == <<raw, key, rekey, npc>>
excelVars == <<grid, wanted_norm, i, best_idx, best_score, header_vals, keep,
               result, error, xpc>>
appVars == <<store, pc, cols, added, column_added_msg, DB_COLS,
             WANTED_NORM, uploaded_files, fidx, delivered, message, clicks>>
vars == <<normVars, excelVars, appVars>>

Sessions == {1, 2}

\* The sessions that upload files; every session adds columns. Uploads of
\* different sessions share nothing, the store is written by adds alone.
Uploaders == {1}

AppUnused ==
  /\ store = <<>> /\ clicks = 0
  /\ pc = [s \in Sessions |-> "unused"]
  /\ cols = [s \in Sessions |-> <<>>]
  /\ added = [s \in Sessions |-> <<>>]
  /\ column_added_msg = [s \in Sessions |-> <<>>]
  /\ DB_COLS = [s \in Sessions |-> <<>>]
  /\ WANTED_NORM = [s \in Sessions |-> <<>>]
  /\ uploaded_files = [s \in Sessions |-> <<>>]
  /\ fidx = [s \in Sessions |-> 0]
  /\ delivered = [s \in Sessions |-> <<>>]
  /\ message = [s \in Sessions |-> ""]

NormUnused == raw = <<>> /\ key = <<>> /\ rekey = <<>> /\ npc = "unused"

ExcelUnused ==
  /\ grid = <<>> /\ wanted_norm = <<>> /\ i = 0 /\ best_idx = -1 /\ best_score = -1
  /\ header_vals = <<>> /\ keep = <<>> /\ result = NoTable /\ error = ""
  /\ xpc = "unused"

\* --------------------------------------------------- norm applied twice
Texts == SeqsUpTo(Alphabet, MaxLen)

NormInit ==
  /\ raw \in Texts /\ key = <<>> /\ rekey = <<>> /\ npc = "raw"
  /\ ExcelUnused /\ AppUnused

\* key = norm(raw)
NormOnce ==
  /\ npc = "raw"
  /\ key' = norm(raw)
  /\ npc' = "once"
  /\ UNCHANGED <<raw, rekey, excelVars, appVars>>

\* rekey = norm(key)
NormTwice ==
  /\ npc = "once"
  /\ rekey' = norm(key)
  /\ npc' = "twice"
  /\ UNCHANGED <<raw, key, excelVars, appVars>>

NormNext == NormOnce \/ NormTwice

SpecNorm == NormInit /\ [][NormNext]_vars

\* ------------------------------------------- process_excel, step by step
\* Cell texts of a grid as the reader returns it (blank cells are ""); "b"
\* is a label no stored name matches.
Cells == {<<>>, <<"A">>, <<"b">>}

\* Raw names the store may hold; "#" is accepted by the add handler.
StoredNames == {<<"a">>, <<"#">>}

AllowLists == {SortedSet(S) : S \in SUBSET StoredNames}

Rows(w) == SeqsOfLen(Cells, w)

ShortGrids == UNION {SeqsUpTo(Rows(w), MaxRows) : w \in 1..MaxCols}

\* A grid of n one-cell rows, all filler but the row at index p.
LongGrid(n, filler, p, marked) ==
  [k \in 1..n |-> IF k = p + 1 THEN <<marked>> ELSE <<filler>>]

LongGrids ==
  {LongGrid(n, f, p, m) :
     n \in (ScanLimit - 1)..(ScanLimit + MaxTail),
     f \in Cells, m \in Cells,
     p \in {0, ScanLimit - 1, ScanLimit}}

ExcelInit ==
  /\ grid \in ShortGrids \cup LongGrids
  /\ wanted_norm \in {WantedNorm(names) : names \in AllowLists}
  /\ i = 0 /\ best_idx = -1 /\ best_score = -1
  /\ header_vals = <<>> /\ keep = <<>> /\ result = NoTable /\ error = ""
  /\ xpc = "scan"
  /\ NormUnused /\ AppUnused

\* Lines 87-91: one iteration of the loop.
ScanRow ==
  /\ xpc = "scan"
  /\ i < ScanBound(grid)
  /\ LET best == ScanIter([idx |-> best_idx, score |-> best_score], i, grid[i + 1],
                          wanted_norm)
     IN  best_idx' = best.idx /\ best_score' = best.score
  /\ i' = i + 1
  /\ UNCHANGED <<grid, wanted_norm, header_vals, keep, result, error, xpc, normVars, appVars>>

\* Lines 93-98: the loop is over; no candidate raises, else the header row
\* is read.
SelectHeader ==
  /\ xpc = "scan"
  /\ i >= ScanBound(grid)
  /\ IF best_idx < 0
     THEN /\ error' = ErrNoHeader
          /\ xpc' = "raised"
          /\ UNCHANGED header_vals
     ELSE /\ header_vals' = grid[best_idx + 1]
          /\ xpc' = "filter"
          /\ UNCHANGED error
  /\ UNCHANGED <<grid, wanted_norm, i, best_idx, best_score, keep, result, normVars, appVars>>

\* Lines 100-106: keep, then raise or return body[keep].
Filter ==
  /\ xpc = "filter"
  /\ keep' = Keep(header_vals, wanted_norm)
  /\ LET out == FilterColumns(grid, best_idx, wanted_norm)
     IN  /\ error' = out.error
         /\ result' = out.table
         /\ xpc' = IF out.error = "" THEN "returned" ELSE "raised"
  /\ UNCHANGED <<grid, wanted_norm, i, best_idx, best_score, header_vals, normVars, appVars>>

ExcelNext == ScanRow \/ SelectHeader \/ Filter

SpecExcel == ExcelInit /\ [][ExcelNext]_vars

\* ------------------------------------------------- sessions of the app
\* load_allowed_columns(), lines 53-56 (the read is taken to succeed).
load_allowed_columns == store

\* save_allowed_columns(cols), lines 62-68: the value put in the item.
save_allowed_columns(list) == SortedSet(Range(list))

\* new_col is held as its comma-separated pieces, i.e. new_col.split(",").
\* Line 170: "not new_col.strip()".
IsBlankInput(pieces) == Len(pieces) = 1 /\ Strip(pieces[1]) = <<>>

\* Line 176: the stripped, non-empty pieces.
InputCols(pieces) ==
  SelectSeq([k \in 1..Len(pieces) |-> Strip(pieces[k])], LAMBDA c : c # <<>>)

\* Lines 179-183: the loop over input_cols; existing_norms is the list
\* computed on line 177 and is not extended by the loop.
RECURSIVE AddLoop(_, _, _, _)
AddLoop(input_cols, existing_norms, list, acc) ==
  IF input_cols = <<>> THEN [cols |-> list, added |-> acc]
  ELSE LET col == Head(input_cols)
       IN  IF ~InList(norm(col), existing_norms)
           THEN AddLoop(Tail(input_cols), existing_norms, Append(list, col),
                        Append(acc, col))
           ELSE AddLoop(Tail(input_cols), existing_norms, list, acc)

ErrNoFiles == "Please select at least one file"
ErrSend == "Send failed"

\* Values typed in new_col, each held as its pieces between the commas: one
\* name, a name with a space to strip, two names with the same canonical
\* key, the same name twice, two names with different keys, and a blank.
Inputs ==
  { << <<"a">> >>,
    << <<"b">> >>,
    << <<" ", "A">> >>,
    << <<"a">>, <<" ", "A">> >>,
    << <<"b">>, <<"b">> >>,
    << <<"A">>, <<"b">> >>,
    << <<" ">> >> }

InitialNames == {<<"a">>, <<"b">>}

\* No two names of the list have the same canonical key.
DistinctKeys(list) ==
  \A j, k \in 1..Len(list) : norm(list[j]) = norm(list[k]) => j = k

InitialStores ==
  {l \in {SortedSet(S) : S \in SUBSET InitialNames} : DistinctKeys(l)}

SheetAB == << <<<<"A">>, <<"b">>>>, <<<<"1">>, <<"1">>>> >>
SheetB == << <<<<"b">>>>, <<<<"1">>>> >>

Uploads == SeqsUpTo({SheetAB, SheetB}, MaxFiles)

AppInit ==
  /\ store \in InitialStores
  /\ clicks = 0
  /\ pc = [s \in Sessions |-> "idle"]
  /\ cols = [s \in Sessions |-> <<>>]
  /\ added = [s \in Sessions |-> <<>>]
  /\ column_added_msg = [s \in Sessions |-> <<>>]
  /\ DB_COLS = [s \in Sessions |-> <<>>]
  /\ WANTED_NORM = [s \in Sessions |-> <<>>]
  /\ uploaded_files = [s \in Sessions |-> <<>>]
  /\ fidx = [s \in Sessions |-> 0]
  /\ delivered = [s \in Sessions |-> <<>>]
  /\ message = [s \in Sessions |-> ""]
  /\ NormUnused /\ ExcelUnused

\* Lines 169-186: "Add Column Permanently" is pressed with new_col typed
\* in and the script runs from the top, up to (not including) the save. A
\* blank input warns (line 171); otherwise the list is loaded and the loop
\* runs, and nothing added warns (line 186). After a warning the run goes
\* on to line 198. The variables of the previous run of the script (DB_COLS,
\* WANTED_NORM, the loop's) are gone: every run starts afresh.
AddLoad(s) ==
  /\ pc[s] = "idle"
  /\ clicks < MaxClicks
  /\ clicks' = clicks + 1
  /\ \E new_col \in Inputs :
       LET loaded == load_allowed_columns
           out == AddLoop(InputCols(new_col), WantedNorm(loaded), loaded, <<>>)
       IN  IF IsBlankInput(new_col) \/ out.added = <<>>
           THEN /\ pc' = [pc EXCEPT ![s] = "main_load"]
                /\ UNCHANGED <<cols, added>>
           ELSE /\ pc' = [pc EXCEPT ![s] = "add_save"]
                /\ cols' = [cols EXCEPT ![s] = out.cols]
                /\ added' = [added EXCEPT ![s] = out.added]
  /\ DB_COLS' = [DB_COLS EXCEPT ![s] = <<>>]
  /\ WANTED_NORM' = [WANTED_NORM EXCEPT ![s] = <<>>]
  /\ uploaded_files' = [uploaded_files EXCEPT ![s] = <<>>]
  /\ fidx' = [fidx EXCEPT ![s] = 0]
  /\ delivered' = [delivered EXCEPT ![s] = <<>>]
  /\ message' = [message EXCEPT ![s] = ""]
  /\ UNCHANGED <<store, column_added_msg, normVars, excelVars>>

\* Lines 188-192: save, set the message, rerun the script (no button is
\* pressed in the rerun).
AddSave(s) ==
  /\ pc[s] = "add_save"
  /\ store' = save_allowed_columns(cols[s])
  /\ column_added_msg' = [column_added_msg EXCEPT ![s] = added[s]]
  /\ cols' = [cols EXCEPT ![s] = <<>>]
  /\ added' = [added EXCEPT ![s] = <<>>]
  /\ pc' = [pc EXCEPT ![s] = "main_load"]
  /\ UNCHANGED <<DB_COLS, WANTED_NORM, uploaded_files, fidx, delivered, message, clicks,
                 normVars, excelVars>>

\* Lines 198-202 in a run where the send button is not pressed: DB_COLS and
\* WANTED_NORM are set from the store and the run ends.
MainLoad(s) ==
  /\ pc[s] = "main_load"
  /\ DB_COLS' = [DB_COLS EXCEPT ![s] = load_allowed_columns]
  /\ WANTED_NORM' = [WANTED_NORM EXCEPT ![s] = WantedNorm(load_allowed_columns)]
  /\ pc' = [pc EXCEPT ![s] = "idle"]
  /\ UNCHANGED <<store, cols, added, column_added_msg, uploaded_files, fidx, delivered,
                 message, clicks, normVars, excelVars>>

\* Lines 198-202 and 236-239: "Upload & Send" is pressed with the files
\* chosen and the script runs from the top: DB_COLS and WANTED_NORM are set
\* from the store; no file reports an error, else the loop starts.
StartSend(s) ==
  /\ s \in Uploaders
  /\ pc[s] = "idle"
  /\ clicks < MaxClicks
  /\ clicks' = clicks + 1
  /\ DB_COLS' = [DB_COLS EXCEPT ![s] = load_allowed_columns]
  /\ WANTED_NORM' = [WANTED_NORM EXCEPT ![s] = WantedNorm(load_allowed_columns)]
  /\ \E files \in Uploads :
       /\ uploaded_files' = [uploaded_files EXCEPT ![s] = files]
       /\ pc' = [pc EXCEPT ![s] = IF files = <<>> THEN "idle" ELSE "upload"]
       /\ message' = [message EXCEPT ![s] = IF files = <<>> THEN ErrNoFiles ELSE ""]
  /\ fidx' = [fidx EXCEPT ![s] = 0]
  /\ delivered' = [delivered EXCEPT ![s] = <<>>]
  /\ UNCHANGED <<store, cols, added, column_added_msg, normVars, excelVars>>

\* The allow-list read from the store again for every file.
FreshKeys(s) == WantedNorm(store)

\* Line 245: the allow-list handed to process_excel for every file.
RequestKeys(s) == WANTED_NORM[s]

\* Lines 241-265: one iteration of the loop over the files: filter, send,
\* and on any exception report it and leave the loop.
SendFile(s) ==
  /\ pc[s] = "upload"
  /\ LET out == process_excel(uploaded_files[s][fidx[s] + 1], RequestKeys(s))
         last == fidx[s] + 1 = Len(uploaded_files[s])
     IN  IF out.error # ""
         THEN /\ message' = [message EXCEPT ![s] = out.error]
              /\ pc' = [pc EXCEPT ![s] = "idle"]
              /\ UNCHANGED <<delivered, fidx>>
         ELSE \E sent \in BOOLEAN :
                IF sent
                THEN /\ delivered' = [delivered EXCEPT ![s] = Append(@, out.table)]
                     /\ fidx' = [fidx EXCEPT ![s] = @ + 1]
                     /\ pc' = [pc EXCEPT ![s] = IF last THEN "idle" ELSE "upload"]
                     /\ UNCHANGED message
                ELSE /\ message' = [message EXCEPT ![s] = ErrSend]
                     /\ pc' = [pc EXCEPT ![s] = "idle"]
                     /\ UNCHANGED <<delivered, fidx>>
  /\ UNCHANGED <<store, cols, added, column_added_msg, DB_COLS, WANTED_NORM,
                 uploaded_files, clicks, normVars, excelVars>>

AppNext ==
  \E s \in Sessions :
    AddLoad(s) \/ AddSave(s) \/ MainLoad(s) \/ StartSend(s) \/ SendFile(s)

SpecApp == AppInit /\ [][AppNext]_vars

\* ================================================================= claims
\* --- the normalizer (SpecNorm)

\* C1: norm is idempotent: norm(norm(s)) = norm(s) for every text s.
C1_NormIdempotent == npc = "twice" => rekey = key

\* --- process_excel (SpecExcel)
ScanDone == xpc \in {"filter", "returned", "raised"}

\* The positions of the header whose normalized label is in the allow-list,
\* in ascending order.
RECURSIVE MatchingFrom(_, _, _)
MatchingFrom(header, wanted, j) ==
  IF j > Len(header) THEN <<>>
  ELSE (IF InList(norm(header[j]), wanted) THEN <<j>> ELSE <<>>)
         \o MatchingFrom(header, wanted, j + 1)

MatchingPositions(header, wanted) == MatchingFrom(header, wanted, 1)

\* C2: for a non-empty grid the chosen header row is the smallest index
\* among the first min(300, row_count) rows whose score is maximal among
\* them; rows at index 300 or later are never chosen; a row is chosen even
\* when the maximal score is 0.
C2_HeaderIsFirstMaximum ==
  (ScanDone /\ grid # <<>>) =>
    LET n == IF Len(grid) < 300 THEN Len(grid) ELSE 300
        score(j) == Score(grid[j + 1], wanted_norm)
    IN  /\ best_idx \in 0..(n - 1)
        /\ best_score = score(best_idx)
        /\ \A j \in 0..(n - 1) :
             /\ score(j) <= score(best_idx)
             /\ j < best_idx => score(j) < score(best_idx)

\* C2's case: a grid longer than the scan limit whose rows past the limit
\* score higher than every scanned row, the scanned rows tie, and row 0 is
\* chosen.
C2_Witness ==
  /\ ScanDone
  /\ Len(grid) > ScanLimit
  /\ best_idx = 0
  /\ Score(grid[2], wanted_norm) = best_score
  /\ \E j \in (ScanLimit + 1)..Len(grid) : Score(grid[j], wanted_norm) > best_score

\* C3: when the header row has the same raw label at two or more positions
\* and the label normalizes into the allow-list, the returned table has
\* exactly one column per kept position and every row holds exactly the
\* values of the body row at the kept positions. (Stated for allow-lists
\* without the empty key, so that blank labels play no part.)
C3_DuplicateLabelsOneColumnEach ==
  (/\ xpc = "returned"
   /\ ~InList(<<>>, wanted_norm)
   /\ \E j, k \in 1..Len(header_vals) :
        /\ j # k
        /\ header_vals[j] = header_vals[k]
        /\ InList(norm(header_vals[j]), wanted_norm))
  => LET positions == MatchingPositions(header_vals, wanted_norm)
         body == Body(grid, best_idx)
     IN  /\ Len(result.labels) = Len(positions)
         /\ Len(result.rows) = Len(body)
         /\ \A r \in 1..Len(body) : result.rows[r] = Project(body[r], positions)

\* C4: the labels of the returned table are the header row's raw labels
\* restricted to the positions whose normalized label is in the allow-list,
\* in ascending position order. (Stated for allow-lists without the empty
\* key, so that blank labels play no part.)
C4_LabelsInHeaderOrder ==
  (xpc = "returned" /\ ~InList(<<>>, wanted_norm)) =>
    result.labels = Project(header_vals, MatchingPositions(header_vals, wanted_norm))

\* C5: process_excel raises exactly when the grid has no rows or the
\* selected header row has no cell whose normalized label is in the
\* allow-list (every call with an empty allow-list is such a call);
\* otherwise it returns a table with at least one column.
C5_ErrorExactly ==
  (xpc \in {"returned", "raised"}) =>
    LET noMatch == \A j \in 1..Len(grid[best_idx + 1]) :
                     ~InList(norm(grid[best_idx + 1][j]), wanted_norm)
    IN  /\ (xpc = "raised") <=> (grid = <<>> \/ noMatch)
        /\ wanted_norm = <<>> => xpc = "raised"
        /\ xpc = "raised" => error # "" /\ result = NoTable
        /\ xpc = "returned" => error = "" /\ Len(result.labels) >= 1

\* C5's case: a non-empty grid and a non-empty allow-list, a header row was
\* selected and none of its cells matches.
C5_Witness ==
  /\ xpc = "raised"
  /\ grid # <<>>
  /\ wanted_norm # <<>>
  /\ error = ErrNoMatch
  /\ best_idx >= 0

\* C10: a cell whose normalized form is the empty text never counts toward
\* a row's header score, and a header position with such a label is never
\* kept as an output column.
C10_BlankNeverMatches ==
  /\ (ScanDone /\ grid # <<>>) =>
       best_score <= Cardinality({j \in 1..Len(grid[best_idx + 1]) :
                                     norm(grid[best_idx + 1][j]) # <<>>})
  /\ xpc = "returned" =>
       \A k \in 1..Len(result.labels) : norm(result.labels[k]) # <<>>

\* --- the sessions (SpecApp)

\* C6: every file of an Upload & Send request is scored and filtered with
\* the keys of the allow-list loaded when the request began, whatever other
\* sessions add to the store while the request runs.
C6_SnapshotIsolation ==
  \A s \in Sessions :
    \A k \in 1..Len(delivered[s]) :
      delivered[s][k] = process_excel(uploaded_files[s][k], WantedNorm(DB_COLS[s])).table

\* C6's case: a request delivered two files, the store changed since the
\* request loaded it, and under the changed store the second file would
\* have given another table.
C6_Witness ==
  \E s \in Sessions :
    /\ Len(delivered[s]) = 2
    /\ store # DB_COLS[s]
    /\ LET now == process_excel(uploaded_files[s][2], WantedNorm(store))
       IN  now.error = "" /\ now.table # delivered[s][2]

\* C7: when filtering a file of a request fails, no file of that request
\* has been delivered.
C7_NoPartialResults ==
  \A s \in Sessions :
    message[s] \in {ErrNoHeader, ErrNoMatch} => delivered[s] = <<>>

\* C8: from a stored list with pairwise distinct canonical keys, every
\* sequence of adds leaves the stored list with pairwise distinct keys.
C8_StoreKeysDistinct == DistinctKeys(store)

\* C9: once the adds of two sessions, of names with different canonical
\* keys, have completed, the stored list contains the names each of them
\* added.
C9_NoLostUpdate ==
  (/\ \A s \in Sessions : pc[s] = "idle" /\ column_added_msg[s] # <<>>
   /\ \A s, u \in Sessions :
        s # u => Range(WantedNorm(column_added_msg[s]))
                   \cap Range(WantedNorm(column_added_msg[u])) = {})
  => \A s \in Sessions : Range(column_added_msg[s]) \subseteq Range(store)

====
